---- MODULE Spec2Model ----
(***************************************************************************)
(* The Superstore sales dashboards src/app.py and src/scripts/app.py as a  *)
(* state machine.  A state is the table file, the cached Dataset, the      *)
(* sidebar widgets' values and what the last run of the script produced.   *)
(* Every widget interaction re-runs the whole script, so every action is   *)
(* one interaction followed by the full run: filter, metrics, charts,      *)
(* forecast (src/app.py only), data viewer and export.                     *)
(*                                                                         *)
(* Dates are day numbers.  Ship Date, Product Name and Discount are        *)
(* modelled by their presence in the header only: no modelled step reads   *)
(* their values.                                                           *)
(***************************************************************************)
EXTENDS Integers, Sequences, FiniteSets, TLC

VARIABLES script, file, df, sel_region, sel_category, sel_sub, date_range,
          filtered_df, metrics, forecast, run

vars == <<script, file, df, sel_region, sel_category, sel_sub, date_range,
          filtered_df, metrics, forecast, run>>

(***************************************************************************)
(* Bounds of the model.                                                    *)
(***************************************************************************)
\* Longest table of the exhaustively enumerated families.
MaxRows == 2
\* Latest day number a table or a date picker holds in those families.
MaxDate == 2
\* Longest table of the daily-series family (one row per index).
MaxSeries == 22

(***************************************************************************)
(* Program constants.                                                      *)
(***************************************************************************)
\* src/app.py:83  if len(sales_ts) > 20
MinHistory == 20
\* src/app.py:86  fit.forecast(30); src/app.py:87  periods=30
Horizon == 30

(***************************************************************************)
(* Values.                                                                 *)
(***************************************************************************)
\* pandas' missing-date marker (pd.NaT).
NaT == 0
\* pandas' missing categorical value (NaN in an object column).
NA == "NaN"
\* The cell of a categorical column the table does not have.
Absent == "-"
\* The cell of a date column the table does not have.
AbsentDate == -2
\* A date cell whose text is no date.
BadDate == -1

Regions == {"East", "West"}
Categories == {"Furniture"}
SubCategories == {"Chairs"}

OptionalCols == {"Order Date", "Ship Date", "Region", "Category",
                 "Sub-Category", "Product Name", "Discount"}
RequiredCols == {"Sales", "Profit"}
AllCols == OptionalCols \cup RequiredCols

Min(S) == CHOOSE x \in S : \A y \in S : x <= y
Max(S) == CHOOSE x \in S : \A y \in S : x >= y

(***************************************************************************)
(* Loader.                                                                 *)
(***************************************************************************)
\* pd.to_datetime(cell, errors="coerce"): a day number parses to itself,
\* any other text becomes NaT.
ToDatetime(cell) == IF cell >= 1 THEN cell ELSE NaT

\* One cell of df["Profit"] / df["Sales"], in percent.  Float division:
\* x/0 is +-inf, 0/0 is NaN.  The tables hold only sales and profits whose
\* quotient in percent is an integer.
ProfitMargin(profit, sales) ==
    IF sales = 0
    THEN IF profit = 0 THEN [kind |-> "nan", pct |-> 0]
         ELSE IF profit > 0 THEN [kind |-> "inf", pct |-> 0]
         ELSE [kind |-> "-inf", pct |-> 0]
    ELSE [kind |-> "num", pct |-> (100 * profit) \div sales]

\* The table's row i once loaded; id is the row's index label.
LoadRow(f, i, coerce) ==
    LET raw == f.rows[i]
    IN  [id       |-> i,
         date     |-> IF coerce THEN ToDatetime(raw.date) ELSE raw.date,
         region   |-> raw.region,
         category |-> raw.category,
         sub      |-> raw.sub,
         sales    |-> raw.sales,
         profit   |-> raw.profit,
         margin   |-> ProfitMargin(raw.profit, raw.sales)]

\* src/scripts/app.py load_data: every conversion is guarded by its column.
LoadScripts(f) ==
    [columns |-> f.header \cup
                 (IF {"Profit", "Sales"} \subseteq f.header
                  THEN {"ProfitMargin"} ELSE {}),
     rows    |-> [i \in 1..Len(f.rows) |->
                     LoadRow(f, i, "Order Date" \in f.header)]]

\* src/app.py load_data: no guard; it is run on tables with every column.
LoadApp(f) ==
    [columns |-> f.header \cup {"ProfitMargin"},
     rows    |-> [i \in 1..Len(f.rows) |-> LoadRow(f, i, TRUE)]]

load_data(s, f) == IF s = "app" THEN LoadApp(f) ELSE LoadScripts(f)

(***************************************************************************)
(* Sidebar widgets.                                                        *)
(***************************************************************************)
Range(seq) == {seq[i] : i \in 1..Len(seq)}

\* df[col].dropna().unique(): the values a multiselect offers, which is
\* also its default selection.
regions(d) ==
    IF "Region" \in d.columns
    THEN {r.region : r \in Range(d.rows)} \ {NA} ELSE {}
categories(d) ==
    IF "Category" \in d.columns
    THEN {r.category : r \in Range(d.rows)} \ {NA} ELSE {}
sub_categories(d) ==
    IF "Sub-Category" \in d.columns
    THEN {r.sub : r \in Range(d.rows)} \ {NA} ELSE {}

\* The order dates that are not missing.
ValidDates(d) == {r.date : r \in Range(d.rows)} \ {NaT}

\* df['Order Date'].min(), .max(): NaT is skipped.
min_date(d) == Min(ValidDates(d))
max_date(d) == Max(ValidDates(d))

\* st.date_input's value for [min_date, max_date]; the name stays unbound
\* (an empty tuple here) when the table has no Order Date column.
DefaultDateRange(s, d) ==
    IF s = "scripts" /\ "Order Date" \in d.columns
    THEN <<min_date(d), max_date(d)>> ELSE <<>>

\* What the date picker can return: one date while a range is being picked,
\* or a range start <= end.
DateInputs ==
    {<<a>> : a \in 1..MaxDate} \cup
    {p \in (1..MaxDate) \X (1..MaxDate) : p[1] <= p[2]}

(***************************************************************************)
(* Filter Engine.                                                          *)
(***************************************************************************)
\* DateLe with the interval's end excluded.
DateLeExclusive(d, end) == d # NaT /\ d < end

\* Series >= Timestamp and Series <= Timestamp: a comparison with NaT is
\* False.
DateGe(d, start) == d # NaT /\ d >= start
DateLe(d, end) == d # NaT /\ d <= end

\* FilterScripts retaining a row that meets any one active constraint.
FilterScriptsAny(d, sr, sc, ss, dr) ==
    LET byRegion == "Region" \in d.columns /\ sr # {}
        byCategory == "Category" \in d.columns /\ sc # {}
        bySub == "Sub-Category" \in d.columns /\ ss # {}
        byDate == "Order Date" \in d.columns /\ Len(dr) = 2
        Keep(r) ==
            \/ ~byRegion /\ ~byCategory /\ ~bySub /\ ~byDate
            \/ byRegion /\ r.region \in sr
            \/ byCategory /\ r.category \in sc
            \/ bySub /\ r.sub \in ss
            \/ byDate /\ DateGe(r.date, dr[1]) /\ DateLe(r.date, dr[2])
    IN  SelectSeq(d.rows, Keep)

\* FilterScripts applying a categorical list even when it is empty.
FilterScriptsEmptyList(d, sr, sc, ss, dr) ==
    LET InRegion(r) == r.region \in sr
        InCategory(r) == r.category \in sc
        InSub(r) == r.sub \in ss
        InDates(r) == DateGe(r.date, dr[1]) /\ DateLe(r.date, dr[2])
        f0 == d.rows
        f1 == IF "Region" \in d.columns
              THEN SelectSeq(f0, InRegion) ELSE f0
        f2 == IF "Category" \in d.columns
              THEN SelectSeq(f1, InCategory) ELSE f1
        f3 == IF "Sub-Category" \in d.columns
              THEN SelectSeq(f2, InSub) ELSE f2
    IN  IF "Order Date" \in d.columns /\ Len(dr) = 2
        THEN SelectSeq(f3, InDates) ELSE f3

\* src/scripts/app.py: four guarded filters applied in turn to a copy.
FilterScripts(d, sr, sc, ss, dr) ==
    LET InRegion(r) == r.region \in sr
        InCategory(r) == r.category \in sc
        InSub(r) == r.sub \in ss
        InDates(r) == DateGe(r.date, dr[1]) /\ DateLe(r.date, dr[2])
        f0 == d.rows
        f1 == IF "Region" \in d.columns /\ sr # {}
              THEN SelectSeq(f0, InRegion) ELSE f0
        f2 == IF "Category" \in d.columns /\ sc # {}
              THEN SelectSeq(f1, InCategory) ELSE f1
        f3 == IF "Sub-Category" \in d.columns /\ ss # {}
              THEN SelectSeq(f2, InSub) ELSE f2
    IN  IF "Order Date" \in d.columns /\ Len(dr) = 2
        THEN SelectSeq(f3, InDates) ELSE f3

\* FilterApp with the two memberships joined by "or".
FilterAppEither(d, sr, sc) ==
    LET Mask(r) == r.region \in sr \/ r.category \in sc
    IN  SelectSeq(d.rows, Mask)

\* src/app.py: one mask, region membership and category membership.
FilterApp(d, sr, sc) ==
    LET Mask(r) == r.region \in sr /\ r.category \in sc
    IN  SelectSeq(d.rows, Mask)

\* The run's filtered_df.
Filter(s, d, sr, sc, ss, dr) ==
    IF s = "app" THEN FilterApp(d, sr, sc)
    ELSE FilterScripts(d, sr, sc, ss, dr)

(***************************************************************************)
(* Aggregator: the three metrics.                                          *)
(***************************************************************************)
RECURSIVE Total(_)
\* Series.sum(): 0 over no rows.
Total(ints) == IF ints = <<>> THEN 0 ELSE Head(ints) + Total(Tail(ints))

SalesOf(view) == [i \in 1..Len(view) |-> view[i].sales]
ProfitOf(view) == [i \in 1..Len(view) |-> view[i].profit]

\* Series.mean() of ProfitMargin, times 100: NaN cells are skipped, the mean
\* of no cell is NaN, infinities propagate and opposite infinities give NaN.
MeanMargin(view) ==
    LET NotNaN(r) == r.margin.kind # "nan"
        vals == SelectSeq(view, NotNaN)
        kinds == {vals[i].margin.kind : i \in 1..Len(vals)}
        special(k) == [kind |-> k, num |-> 0, den |-> 1]
    IN  IF vals = <<>> THEN special("nan")
        ELSE IF {"inf", "-inf"} \subseteq kinds THEN special("nan")
        ELSE IF "inf" \in kinds THEN special("inf")
        ELSE IF "-inf" \in kinds THEN special("-inf")
        ELSE [kind |-> "num",
              num  |-> Total([i \in 1..Len(vals) |-> vals[i].margin.pct]),
              den  |-> Len(vals)]

\* The values handed to the three st.metric calls.  An f-string formats a
\* NaN as "nan": neither script tests the mean before formatting it.
Metrics(s, d, view) ==
    IF s = "app"
    THEN [total_sales  |-> Total(SalesOf(view)),
          total_profit |-> Total(ProfitOf(view)),
          avg_margin   |-> MeanMargin(view)]
    ELSE [total_sales  |-> IF "Sales" \in d.columns
                           THEN Total(SalesOf(view)) ELSE 0,
          total_profit |-> IF "Profit" \in d.columns
                           THEN Total(ProfitOf(view)) ELSE 0,
          avg_margin   |-> IF "ProfitMargin" \in d.columns
                           THEN MeanMargin(view)
                           ELSE [kind |-> "num", num |-> 0, den |-> 1]]

(***************************************************************************)
(* The steps of a run that render something.  A step whose guard columns   *)
(* are not all in the table is skipped; a step that is run and reads a     *)
(* column the table does not have raises KeyError, which ends the run.     *)
(***************************************************************************)
StepOf(n, g, u) == [name |-> n, guard |-> g, uses |-> u]

\* ScriptsSteps with the treemap guarded by the Category column alone.
ScriptsStepsCategoryGuard ==
    << StepOf("metrics", {}, {}),
       StepOf("monthly", {"Order Date"}, {"Order Date", "Sales"}),
       StepOf("by_region", {"Region"}, {"Region", "Sales"}),
       StepOf("top_products", {"Product Name", "Sales"},
              {"Product Name", "Sales"}),
       StepOf("discount_profit", {"Discount", "Profit"},
              {"Discount", "Profit"}),
       StepOf("sales_over_time", {"Order Date"}, {"Order Date", "Sales"}),
       StepOf("region_sales", {"Region"}, {"Region", "Sales"}),
       StepOf("top10", {"Product Name"}, {"Product Name", "Sales"}),
       StepOf("treemap", {"Category"},
              {"Category", "Sub-Category", "Profit"}),
       StepOf("viewer", {}, {}),
       StepOf("csv", {}, {}),
       StepOf("excel", {}, {}) >>

\* src/scripts/app.py, lines 77 to 175.
ScriptsSteps ==
    << StepOf("metrics", {}, {}),
       StepOf("monthly", {"Order Date"}, {"Order Date", "Sales"}),
       StepOf("by_region", {"Region"}, {"Region", "Sales"}),
       StepOf("top_products", {"Product Name", "Sales"},
              {"Product Name", "Sales"}),
       StepOf("discount_profit", {"Discount", "Profit"},
              {"Discount", "Profit"}),
       StepOf("sales_over_time", {"Order Date"}, {"Order Date", "Sales"}),
       StepOf("region_sales", {"Region"}, {"Region", "Sales"}),
       StepOf("top10", {"Product Name"}, {"Product Name", "Sales"}),
       StepOf("treemap", {"Category", "Sub-Category"},
              {"Category", "Sub-Category", "Profit"}),
       StepOf("viewer", {}, {}),
       StepOf("csv", {}, {}),
       StepOf("excel", {}, {}) >>

\* src/app.py, lines 45 to 75: before the forecast.
AppSteps ==
    << StepOf("metrics", {}, {"Sales", "Profit", "ProfitMargin"}),
       StepOf("monthly", {}, {"Order Date", "Sales"}),
       StepOf("by_region", {}, {"Region", "Sales"}),
       StepOf("top_products", {}, {"Product Name", "Sales"}),
       StepOf("discount_profit", {}, {"Discount", "Profit"}) >>

\* src/app.py, lines 99 to 102: after the forecast.
AppExportSteps ==
    << StepOf("viewer", {}, {}),
       StepOf("csv", {}, {}) >>

NoRun == [status |-> "done", rendered |-> {}, skipped |-> {},
          failed_at |-> "none"]

RECURSIVE RunSteps(_, _, _, _)
RunSteps(steps, i, columns, acc) ==
    IF i > Len(steps) \/ acc.status = "failed" THEN acc
    ELSE LET st == steps[i]
         IN  IF ~(st.guard \subseteq columns)
             THEN RunSteps(steps, i + 1, columns,
                           [acc EXCEPT !.skipped = @ \cup {st.name}])
             ELSE IF ~(st.uses \subseteq columns)
             THEN [acc EXCEPT !.status = "failed", !.failed_at = st.name]
             ELSE RunSteps(steps, i + 1, columns,
                           [acc EXCEPT !.rendered = @ \cup {st.name}])

(***************************************************************************)
(* Forecaster (src/app.py only).                                           *)
(***************************************************************************)
RECURSIVE SortedSeq(_)
SortedSeq(S) ==
    IF S = {} THEN <<>> ELSE <<Min(S)>> \o SortedSeq(S \ {Min(S)})

\* filtered_df.groupby("Order Date")[["Sales"]].sum().reset_index(): one
\* row per order date, in date order; groupby drops the NaT key.
sales_ts(view) ==
    LET days == SortedSeq({view[i].date : i \in 1..Len(view)} \ {NaT})
        OnDay(k) == LET Same(r) == r.date = days[k]
                    IN  SelectSeq(view, Same)
    IN  [k \in 1..Len(days) |->
            [date |-> days[k], sales |-> Total(SalesOf(OnDay(k)))]]

\* pd.date_range(sales_ts["Order Date"].max(), periods=30, freq="D"): the
\* first date is the last order date itself.
forecast_dates(ts) == [k \in 1..Horizon |-> ts[Len(ts)].date + (k - 1)]

\* What the library call ExponentialSmoothing(...).fit() can do, whatever
\* the series: return a fit, return one whose optimiser did not converge
\* (statsmodels warns and goes on), or raise.
FitOutcomes == {"ok", "not_converged", "raise"}

NoForecast == [status |-> "none", fit |-> "none", history |-> 0,
               points |-> <<>>]

\* Forecast fitting a history of MinHistory dates already.
ForecastAtMinHistory(view, outcome) ==
    LET ts == sales_ts(view)
    IN  IF Len(ts) >= MinHistory
        THEN IF outcome = "raise"
             THEN [status |-> "raised", fit |-> outcome,
                   history |-> Len(ts), points |-> <<>>]
             ELSE [status |-> "chart", fit |-> outcome,
                   history |-> Len(ts),
                   points |-> [k \in 1..Horizon |->
                                  [date |-> forecast_dates(ts)[k],
                                   step |-> k]]]
        ELSE [status |-> "info", fit |-> "none", history |-> Len(ts),
              points |-> <<>>]

\* Lines 82 to 94.  points[k] pairs the k-th value of fit.forecast(30), the
\* k-step-ahead prediction, with the k-th forecast date, as go.Scatter does.
Forecast(view, outcome) ==
    LET ts == sales_ts(view)
    IN  IF Len(ts) > MinHistory
        THEN IF outcome = "raise"
             THEN [status |-> "raised", fit |-> outcome,
                   history |-> Len(ts), points |-> <<>>]
             ELSE [status |-> "chart", fit |-> outcome,
                   history |-> Len(ts),
                   points |-> [k \in 1..Horizon |->
                                  [date |-> forecast_dates(ts)[k],
                                   step |-> k]]]
        ELSE [status |-> "info", fit |-> "none", history |-> Len(ts),
              points |-> <<>>]

(***************************************************************************)
(* One run of a script.                                                    *)
(***************************************************************************)
\* src/app.py: nothing catches an exception of the forecast step, so the
\* run ends there and the steps after it are not reached.
RunApp(d, fc) ==
    LET before == RunSteps(AppSteps, 1, d.columns, NoRun)
        after  == IF before.status = "failed" THEN before
                  ELSE IF fc.status = "raised"
                  THEN [before EXCEPT !.status = "failed",
                                      !.failed_at = "forecast"]
                  ELSE [before EXCEPT !.rendered = @ \cup
                           {IF fc.status = "chart" THEN "forecast_chart"
                            ELSE "forecast_info"}]
    IN  RunSteps(AppExportSteps, 1, d.columns, after)

RunScripts(d) == RunSteps(ScriptsSteps, 1, d.columns, NoRun)

\* CachedAfterRun for a filter that narrows the cached table in place.
CachedAfterRunInPlace(d, view) == [d EXCEPT !.rows = view]

\* The cached Dataset once a run is over.  st.cache_data hands each run the
\* loaded table; src/scripts/app.py filters a copy of it (line 56) and
\* src/app.py indexes it with a mask (line 38), which builds a new table.
CachedAfterRun(d, view) == d

\* Everything a run of script s leaves behind.
RunScript(s, d, sr, sc, ss, dr, outcome) ==
    LET view == Filter(s, d, sr, sc, ss, dr)
        fc   == IF s = "app" THEN Forecast(view, outcome) ELSE NoForecast
    IN  [cache    |-> CachedAfterRun(d, view),
         view     |-> view,
         metrics  |-> Metrics(s, d, view),
         forecast |-> fc,
         run      |-> IF s = "app" THEN RunApp(d, fc) ELSE RunScripts(d)]

\* The fit's outcomes a run of script s can meet.
Outcomes(s) == IF s = "app" THEN FitOutcomes ELSE {"ok"}

(***************************************************************************)
(* The table files the model is run on.                                    *)
(***************************************************************************)
RawRow(d, r, c, sb, s, p) ==
    [date |-> d, region |-> r, category |-> c, sub |-> sb,
     sales |-> s, profit |-> p]

\* All tables of at most MaxRows rows drawn from a set of rows.
Tables(rows) == UNION {[1..n -> rows] : n \in 0..MaxRows}

\* Rows that differ in order date and region; no row has a sub-category.
DateRegionRows ==
    {RawRow(d, r, "Furniture", NA, 1, 1) :
        d \in {BadDate} \cup 1..MaxDate, r \in {NA, "East"}}

\* Rows that differ in the three categorical columns.
CategoricalRows ==
    {RawRow(1, r[1], r[2], r[3], 1, 1) :
        r \in ({NA, "East"}) \X ({NA} \cup Categories)
              \X ({NA} \cup SubCategories)}

\* Rows that differ in sales and profit.
MoneyRows ==
    {RawRow(1, "East", "Furniture", "Chairs", m[1], m[2]) :
        m \in {<<1, 1>>, <<2, -2>>, <<0, 0>>, <<0, 2>>}}

\* Row i of a daily series of n rows.  "daily": one order per day;
\* "paired": two orders per day, in alternating regions; "bad_first": the
\* first date cell is no date; "west_last": the last order is in the West.
SeriesKinds == {"daily", "paired", "bad_first", "west_last"}
SeriesRow(kind, n, i) ==
    RawRow(IF kind = "paired" THEN (i + 1) \div 2
           ELSE IF kind = "bad_first" /\ i = 1 THEN BadDate ELSE i,
           IF (kind = "paired" /\ i % 2 = 0) \/ (kind = "west_last" /\ i = n)
           THEN "West" ELSE "East",
           "Furniture", "Chairs", 1 + (i % 2), 1)
SeriesTables ==
    {[i \in 1..n |-> SeriesRow(kind, n, i)] :
        n \in 0..MaxSeries, kind \in SeriesKinds}

\* The rows of the tables whose header varies.
HeaderRows ==
    << RawRow(1, "East", "Furniture", "Chairs", 2, 2),
       RawRow(2, "West", NA, "Chairs", 1, 1),
       RawRow(BadDate, "East", "Furniture", NA, 1, -1) >>

\* A row as a table with header h holds it: no cell for an absent column.
Blank(h, raw) ==
    [raw EXCEPT !.date = IF "Order Date" \in h THEN @ ELSE AbsentDate,
                !.region = IF "Region" \in h THEN @ ELSE Absent,
                !.category = IF "Category" \in h THEN @ ELSE Absent,
                !.sub = IF "Sub-Category" \in h THEN @ ELSE Absent]

\* The file with table t under the header of the optional columns h.
FileOf(h, t) ==
    [header |-> RequiredCols \cup h,
     rows |-> [i \in 1..Len(t) |-> Blank(h, t[i])]]

\* src/app.py reads every column unguarded: its files have them all.
AppFiles ==
    {FileOf(OptionalCols, t) :
        t \in Tables(DateRegionRows) \cup Tables(CategoricalRows)
              \cup Tables(MoneyRows) \cup SeriesTables \cup {HeaderRows}}

\* src/scripts/app.py: the same tables, the categorical and the money ones
\* without an Order Date column, and one table under every header.
ScriptsFiles ==
    {FileOf(OptionalCols, t) : t \in Tables(DateRegionRows)} \cup
    {FileOf(OptionalCols \ {"Order Date"}, t) :
        t \in Tables(CategoricalRows) \cup Tables(MoneyRows)} \cup
    {FileOf(h, HeaderRows) : h \in SUBSET OptionalCols}

\* st.date_input needs dates for its default: src/scripts/app.py is run on
\* tables that have a valid order date whenever they have the column.
Runnable(s, f) ==
    \/ s = "app"
    \/ /\ s = "scripts"
       /\ "Order Date" \in f.header =>
              \E i \in 1..Len(f.rows) : f.rows[i].date >= 1

(***************************************************************************)
(* The state machine.                                                      *)
(***************************************************************************)
\* The first run: the table is loaded and every widget holds its default.
Start(s, f, outcome) ==
    LET d == load_data(s, f)
        ss == IF s = "scripts" THEN sub_categories(d) ELSE {}
        dr == DefaultDateRange(s, d)
        r == RunScript(s, d, regions(d), categories(d), ss, dr, outcome)
    IN  /\ script = s
        /\ file = f
        /\ df = r.cache
        /\ sel_region = regions(d)
        /\ sel_category = categories(d)
        /\ sel_sub = ss
        /\ date_range = dr
        /\ filtered_df = r.view
        /\ metrics = r.metrics
        /\ forecast = r.forecast
        /\ run = r.run

Init ==
    \E s \in {"app", "scripts"} :
        \E f \in (IF s = "app" THEN AppFiles ELSE ScriptsFiles) :
            /\ Runnable(s, f)
            /\ \E outcome \in Outcomes(s) : Start(s, f, outcome)

\* A widget changed: the script runs again from the top, load_data returns
\* the cached table.
Rerun(sr, sc, ss, dr) ==
    \E outcome \in Outcomes(script) :
        LET r == RunScript(script, df, sr, sc, ss, dr, outcome)
        IN  /\ sel_region' = sr
            /\ sel_category' = sc
            /\ sel_sub' = ss
            /\ date_range' = dr
            /\ df' = r.cache
            /\ filtered_df' = r.view
            /\ metrics' = r.metrics
            /\ forecast' = r.forecast
            /\ run' = r.run
            /\ UNCHANGED <<script, file>>

Toggle(S, v) == IF v \in S THEN S \ {v} ELSE S \cup {v}

\* One option of "Select Region(s)" is added or removed.
SelectRegion ==
    \E v \in regions(df) :
        Rerun(Toggle(sel_region, v), sel_category, sel_sub, date_range)

\* One option of "Select Category(s)" is added or removed.
SelectCategory ==
    \E v \in categories(df) :
        Rerun(sel_region, Toggle(sel_category, v), sel_sub, date_range)

\* One option of "Select Sub-Category(s)" is added or removed.
SelectSubCategory ==
    /\ script = "scripts"
    /\ \E v \in sub_categories(df) :
           Rerun(sel_region, sel_category, Toggle(sel_sub, v), date_range)

\* "Select Date Range" returns another value.
SelectDateRange ==
    /\ script = "scripts"
    /\ "Order Date" \in df.columns
    /\ \E dr \in DateInputs \ {date_range} :
           Rerun(sel_region, sel_category, sel_sub, dr)

Next ==
    \/ SelectRegion
    \/ SelectCategory
    \/ SelectSubCategory
    \/ SelectDateRange

Spec == Init /\ [][Next]_vars

(***************************************************************************)
(* The claims.                                                             *)
(***************************************************************************)
Dataset == Range(df.rows)
FilteredView == Range(filtered_df)

\* Whether the current FilterSpec constrains a dimension: src/app.py
\* applies its two lists always, src/scripts/app.py a list that is not
\* empty on a column the table has, and the interval once it has two ends.
RegionActive ==
    script = "app" \/ ("Region" \in df.columns /\ sel_region # {})
CategoryActive ==
    script = "app" \/ ("Category" \in df.columns /\ sel_category # {})
SubActive ==
    script = "scripts" /\ "Sub-Category" \in df.columns /\ sel_sub # {}
DateActive ==
    script = "scripts" /\ "Order Date" \in df.columns /\ Len(date_range) = 2

InInterval(r) ==
    r.date # NaT /\ date_range[1] <= r.date /\ r.date <= date_range[2]

\* C1: the FilteredView is a subset of the Dataset, in the Dataset's order,
\* and every retained row satisfies every active constraint at once: its
\* region is selected AND its category is selected AND its sub-category is
\* selected AND its order date lies in the interval.
C1_ViewSatisfiesAllConstraints ==
    /\ FilteredView \subseteq Dataset
    /\ \A i \in 1..Len(filtered_df) : \A j \in 1..Len(filtered_df) :
           i < j => filtered_df[i].id < filtered_df[j].id
    /\ \A r \in FilteredView :
           /\ RegionActive => r.region \in sel_region
           /\ CategoryActive => r.category \in sel_category
           /\ SubActive => r.sub \in sel_sub
           /\ DateActive => InInterval(r)

\* C1's case: a region list and a date interval are both active, a row is
\* retained, and a row that meets the region constraint alone is dropped.
C1_Witness ==
    /\ script = "scripts"
    /\ "Region" \in df.columns /\ sel_region # {} /\ DateActive
    /\ filtered_df # <<>>
    /\ \E r \in Dataset \ FilteredView :
           r.region \in sel_region /\ ~InInterval(r)
    /\ \E r \in Dataset \ FilteredView :
           r.region \notin sel_region /\ InInterval(r)

PassesLists(r) ==
    /\ RegionActive => r.region \in sel_region
    /\ CategoryActive => r.category \in sel_category
    /\ SubActive => r.sub \in sel_sub

\* C2: with a date filter [start, end] active, a row that passes the
\* categorical lists is retained exactly when start <= d <= end for its
\* order date d, both ends included, and no retained row has a missing
\* order date.
C2_DateIntervalInclusive ==
    DateActive =>
        /\ \A r \in Dataset :
               PassesLists(r) =>
                   (r \in FilteredView <=>
                        /\ r.date # NaT
                        /\ date_range[1] <= r.date
                        /\ r.date <= date_range[2])
        /\ \A r \in FilteredView : r.date # NaT

\* C2's case: a row dated on the interval's start and a row dated on its
\* end are retained, a row with a missing date and a row dated outside the
\* interval are dropped, each of them passing the categorical lists.
C2_Witness ==
    /\ DateActive
    /\ \E r \in FilteredView : r.date = date_range[1]
    /\ \E r \in FilteredView : r.date = date_range[2]
    /\ \E r \in Dataset \ FilteredView : r.date = NaT /\ PassesLists(r)
    /\ \E r \in Dataset \ FilteredView :
           /\ r.date # NaT
           /\ r.date > date_range[2] \/ r.date < date_range[1]
           /\ PassesLists(r)

Dims == {"Region", "Category", "Sub-Category"}
ValueOf(r, dim) ==
    CASE dim = "Region" -> r.region
      [] dim = "Category" -> r.category
      [] dim = "Sub-Category" -> r.sub
ListOf(dim) ==
    CASE dim = "Region" -> sel_region
      [] dim = "Category" -> sel_category
      [] dim = "Sub-Category" -> sel_sub
Restricts(dim) == dim \in df.columns /\ ListOf(dim) # {}

\* The FilteredView of the same FilterSpec with dimension dim removed.
ViewWithout(dim) ==
    LET Keep(r) ==
            /\ \A e \in Dims \ {dim} :
                   Restricts(e) => ValueOf(r, e) \in ListOf(e)
            /\ DateActive => InInterval(r)
    IN  SelectSeq(df.rows, Keep)

\* C3: in src/scripts/app.py a categorical dimension whose list is empty or
\* whose column is absent imposes no constraint (the view is the one of the
\* FilterSpec without that dimension), and a non-empty list retains, of
\* that view, exactly the rows whose value is a member of the list.
C3_EmptyListIsNoConstraint ==
    script = "scripts" =>
        \A dim \in Dims :
            LET Member(r) == ValueOf(r, dim) \in ListOf(dim)
            IN  IF Restricts(dim)
                THEN filtered_df = SelectSeq(ViewWithout(dim), Member)
                ELSE filtered_df = ViewWithout(dim)

\* C3's case: the region list was emptied on a table with two regions and
\* rows of both are retained, while the non-empty sub-category list drops a
\* row.
C3_Witness ==
    /\ script = "scripts"
    /\ "Region" \in df.columns /\ sel_region = {}
    /\ Cardinality({r.region : r \in FilteredView}) >= 2
    /\ Restricts("Sub-Category")
    /\ \E r \in Dataset \ FilteredView : r.sub \notin sel_sub

DistinctDates(view) == {view[i].date : i \in 1..Len(view)} \ {NaT}

\* C4: the Forecaster attempts a fit if and only if the FilteredView has at
\* least 21 distinct order dates; with 20 or fewer (an empty view included)
\* it reports insufficient data and produces no forecast.
C4_FitIffTwentyOneDates ==
    script = "app" =>
        LET n == Cardinality(DistinctDates(filtered_df))
        IN  /\ forecast.fit # "none" <=> n >= 21
            /\ n <= 20 =>
                   /\ forecast.status = "info"
                   /\ forecast.points = <<>>
                   /\ "forecast_info" \in run.rendered
                   /\ "forecast_chart" \notin run.rendered

\* C4's case: a view of exactly 21 distinct order dates, which has more
\* rows than dates, is fitted.
C4_Witness ==
    /\ script = "app"
    /\ Cardinality(DistinctDates(filtered_df)) = 21
    /\ Len(filtered_df) > 21
    /\ forecast.fit = "ok"
    /\ forecast.status = "chart"

\* C5: a forecast is exactly 30 (date, prediction) pairs, the k-th on the
\* k-th day after the last observed order date: last+1 .. last+30.
C5_ForecastStartsDayAfterLast ==
    forecast.status = "chart" =>
        LET last == Max(DistinctDates(filtered_df))
        IN  /\ Len(forecast.points) = 30
            /\ \A k \in 1..30 :
                   /\ forecast.points[k].step = k
                   /\ forecast.points[k].date = last + k

\* C6: a failed forecast step (too little history, a fit that does not
\* converge, a fit that raises) shows the informational message in place of
\* the chart, and the run goes on through the data viewer and the export.
C6_ForecastFailureRecovered ==
    (script = "app" /\
     (forecast.status = "info" \/ forecast.fit \in {"not_converged", "raise"}))
    =>  /\ run.status = "done"
        /\ "forecast_info" \in run.rendered
        /\ "forecast_chart" \notin run.rendered
        /\ {"viewer", "csv"} \subseteq run.rendered

\* C7: whatever optional columns the table lacks, a run of
\* src/scripts/app.py completes: every step that reads an absent column is
\* skipped, every other step is rendered, an absent categorical column
\* filters nothing, and the viewer and both exports are reached.
C7_AbsentColumnsAreSkipped ==
    script = "scripts" =>
        /\ run.status = "done"
        /\ run.failed_at = "none"
        /\ \A i \in 1..Len(ScriptsSteps) :
               LET st == ScriptsSteps[i]
               IN  IF st.uses \subseteq df.columns
                   THEN st.name \in run.rendered
                   ELSE st.name \in run.skipped /\ st.name \notin run.rendered
        /\ (Dims \cup {"Order Date"}) \cap df.columns = {} =>
               filtered_df = df.rows

\* C7's case: a table with none of the seven optional columns.
C7_Witness ==
    /\ script = "scripts"
    /\ df.columns \cap OptionalCols = {}
    /\ run.status = "done"
    /\ {"monthly", "by_region", "top_products", "discount_profit",
        "sales_over_time", "region_sales", "top10", "treemap"}
           \subseteq run.skipped
    /\ Len(filtered_df) = 3

\* C8: over a FilteredView of zero rows (of a Dataset that has rows) the
\* metrics step completes, total sales and total profit are 0, and the mean
\* profit margin that reaches the rendered metric is not the undefined
\* (NaN) value.
C8_EmptyViewMetricsGuarded ==
    (filtered_df = <<>> /\ df.rows # <<>>) =>
        /\ "metrics" \in run.rendered
        /\ metrics.total_sales = 0
        /\ metrics.total_profit = 0
        /\ metrics.avg_margin.kind # "nan"

C10_Case ==
    /\ script = "scripts"
    /\ file.header = AllCols
    /\ sel_region # {} /\ sel_category # {}
    /\ sel_sub = sub_categories(df)
    /\ date_range = DefaultDateRange(script, df)

====
